---- MODULE Spec2Model ----
(***************************************************************************)
(* SkyCast AI: the WeatherModelService (src/src/services/weatherModel.ts)  *)
(* and the part of the dashboard that drives it (src/src/App.tsx).         *)
(*                                                                         *)
(* Numbers.  A JavaScript number that the code obtains by a division or a  *)
(* square root is kept exactly, as a pair <<n, d>> standing for n / d.     *)
(* Entry 11 of a feature row (rollingStd7) holds the radicand handed to    *)
(* Math.sqrt, so the entry stands for sqrt(n / d).                         *)
(* A date string "YYYY-MM-DD" is kept as its three fields <<y, m, d>>.      *)
(***************************************************************************)
EXTENDS Integers, Sequences, FiniteSets, TLC

VARIABLES
    \* ---- WeatherModelService fields
    labelEncoder,     \* Map<string, number>
    lstmModel,        \* the tf.LayersModel held, or NoModel for null
    classifierModel,
    fits,             \* the train calls awaiting model.fit, each with its model
    lastTrain,        \* how the latest settled train call ended
    \* ---- App component state
    activeTab, data, isTraining, trainingLogs, metrics, prediction,
    runs,             \* runTraining invocations in progress: id -> [pc, nRows]
    nRuns,            \* runTraining invocations that reached trainLSTM so far
    lastRun,          \* the promise of the latest runTraining call
    fetchPending,     \* the initial fetch of /weather_data.csv has not completed
    lastPredict,      \* what the latest predict call saw and produced
    \* ---- a caller of preprocessData and of the windowing loop
    stage, obs, engineered, windowed

vars == <<labelEncoder, lstmModel, classifierModel, fits, lastTrain,
          activeTab, data, isTraining, trainingLogs, metrics, prediction,
          runs, nRuns, lastRun, fetchPending, lastPredict, stage, obs, engineered,
          windowed>>

serviceVars == <<labelEncoder, lstmModel, classifierModel, fits, lastTrain>>
appVars == <<activeTab, data, isTraining, trainingLogs, metrics, prediction, runs,
            nRuns, lastRun, fetchPending>>
engineerVars == <<stage, obs, engineered, windowed>>

----------------------------------------------------------------------------
(* types.ts *)

WEATHER_LABELS == [i \in 0..4 |->
    CASE i = 0 -> "clear" [] i = 1 -> "cloudy" [] i = 2 -> "rain"
      [] i = 3 -> "storm" [] i = 4 -> "snow"]

LabelSet == {WEATHER_LABELS[i] : i \in DOMAIN WEATHER_LABELS}

----------------------------------------------------------------------------
(* Dates: new Date(s).getTime(), parseISO, getDayOfYear, getMonth, getDay *)

\* a date field is <<y, m, d>> for the string "YYYY-MM-DD" and NoDate for a
\* value that is no string (a missing column gives undefined, a cell of
\* digits a number)
NoDate == <<>>
IsDate(date) == Len(date) = 3

\* days since 1970-01-01 of the civil date y-m-d
DaysFromCivil(y, m, d) ==
    LET yy  == IF m <= 2 THEN y - 1 ELSE y
        era == yy \div 400
        yoe == yy - era * 400
        mp  == (m + 9) % 12
        doy == (153 * mp + 2) \div 5 + d - 1
        doe == yoe * 365 + yoe \div 4 - yoe \div 100 + doy
    IN  era * 146097 + doe - 719468

\* new Date("YYYY-MM-DD").getTime(): UTC midnight of the date.  The value is
\* counted in days, not in ms (a whole multiple of 86400000 for such a date),
\* to stay within 32-bit integers; differences keep their sign.
GetTime(date) == DaysFromCivil(date[1], date[2], date[3])

\* new Date(a).getTime() - new Date(b).getTime(); for a value that is no
\* date the difference is NaN, which sort takes as 0
CompareDates(a, b) ==
    IF IsDate(a) /\ IsDate(b) THEN GetTime(a) - GetTime(b) ELSE 0

\* date-fns getDay(parseISO(s)): 0 = Sunday .. 6 = Saturday
GetDay(date) == (DaysFromCivil(date[1], date[2], date[3]) + 4) % 7

\* date-fns getDayOfYear(parseISO(s)): 1..366
GetDayOfYear(date) ==
    DaysFromCivil(date[1], date[2], date[3]) - DaysFromCivil(date[1], 1, 1) + 1

\* date-fns getMonth(parseISO(s)): 0..11
GetMonth(date) == date[2] - 1

----------------------------------------------------------------------------
(* Numbers: a JavaScript number is written as the fraction <<n, d>> of two
   integers, d a power of two.  Every arithmetic result is rounded to the
   nearest number of MantissaBits significant bits, ties to even, as IEEE-754
   arithmetic does with 53 bits. *)

MantissaBits == 5

Pow2(k) == 2^k

Abs(n) == IF n < 0 THEN -n ELSE n

\* floor(log2(n / d)) for n, d > 0
RECURSIVE ExpOf(_, _)
ExpOf(n, d) ==
    IF n >= 2 * d THEN ExpOf(n, 2 * d) + 1
    ELSE IF n < d THEN ExpOf(2 * n, d) - 1
    ELSE 0

\* a / b rounded to the nearest integer, ties to even (a >= 0, b > 0)
RoundHalfEven(a, b) ==
    LET q == a \div b
        r == a % b
    IN  IF 2 * r < b THEN q
        ELSE IF 2 * r > b THEN q + 1
        ELSE q + (q % 2)

\* n / d in lowest terms, for d a power of two
RECURSIVE LowestTerms(_, _)
LowestTerms(n, d) ==
    IF d > 1 /\ Abs(n) % 2 = 0 THEN LowestTerms(n \div 2, d \div 2) ELSE <<n, d>>

\* the number nearest to the fraction x
Fl(x) ==
    IF x[1] = 0 THEN <<0, 1>>
    ELSE LET neg == (x[1] < 0) # (x[2] < 0)
             a   == Abs(x[1])
             d   == Abs(x[2])
             q   == ExpOf(a, d) - MantissaBits + 1
             m   == IF q >= 0 THEN RoundHalfEven(a, d * Pow2(q))
                    ELSE RoundHalfEven(a * Pow2(-q), d)
             sm  == IF neg THEN -m ELSE m
         IN  IF q >= 0 THEN <<sm * Pow2(q), 1>> ELSE LowestTerms(sm, Pow2(-q))

\* a number literal or an input value
Num(n) == <<n, 1>>

\* n / d for two integer-valued numbers
Div(n, d) == Fl(<<n, d>>)

\* NaN, equal to no number
NaN == <<0, 0>>

\* a === b
NumEq(a, b) == a[2] # 0 /\ b[2] # 0 /\ a[1] * b[2] = b[1] * a[2]

\* a + b, a - b, a * b, a / b
FAdd(a, b) ==
    LET D == IF a[2] >= b[2] THEN a[2] ELSE b[2]
    IN  Fl(<<a[1] * (D \div a[2]) + b[1] * (D \div b[2]), D>>)

FSub(a, b) == FAdd(a, <<-b[1], b[2]>>)

FMul(a, b) == Fl(<<a[1] * b[1], a[2] * b[2]>>)

FDiv(a, b) == Fl(<<a[1] * b[2], a[2] * b[1]>>)

\* Math.sqrt(a) for a >= 0: the number nearest to the square root
FSqrt(a) ==
    IF a[1] = 0 THEN <<0, 1>>
    ELSE LET q  == (ExpOf(a[1], a[2]) \div 2) - MantissaBits + 1
             \* (m * 2^q)^2 <= a,  for m counted in units of 2^q
             Below(m, k) ==
                 IF k >= 0 THEN m * m * Pow2(2 * k) * a[2] <= a[1]
                 ELSE m * m * a[2] <= a[1] * Pow2(-2 * k)
             m0 == CHOOSE m \in Pow2(MantissaBits - 1)..(Pow2(MantissaBits) - 1) :
                      /\ Below(m, q)
                      /\ (m + 1 < Pow2(MantissaBits) => ~Below(m + 1, q))
             m1 == IF Below(2 * m0 + 1, q - 1) THEN m0 + 1 ELSE m0
         IN  IF q >= 0 THEN <<m1 * Pow2(q), 1>> ELSE LowestTerms(m1, Pow2(-q))

\* s.reduce((a, b) => a + b, acc)
RECURSIVE SumSeq(_, _)
SumSeq(s, acc) ==
    IF s = <<>> THEN acc ELSE SumSeq(Tail(s), FAdd(acc, Head(s)))

----------------------------------------------------------------------------
(* WeatherModelService.constructor *)

ConstructorShifted == [l \in LabelSet |->
    (CHOOSE i \in DOMAIN WEATHER_LABELS : WEATHER_LABELS[i] = l) + 1]

\* WEATHER_LABELS.forEach((label, index) => labelEncoder.set(label, index))
Constructor == [l \in LabelSet |->
    CHOOSE i \in DOMAIN WEATHER_LABELS : WEATHER_LABELS[i] = l]

\* the encoder's answer passed on as it is, a missing one as -1
EncodeLabelNoDefault(enc, label) ==
    IF label \in DOMAIN enc THEN enc[label] ELSE -1

\* this.labelEncoder.get(label) || 0
EncodeLabel(enc, label) ==
    IF label \in DOMAIN enc /\ enc[label] # 0 THEN enc[label] ELSE 0

----------------------------------------------------------------------------
(* WeatherModelService.preprocessData *)

\* rows of equal date come out in reverse input order
RECURSIVE InsertByDateUnstable(_, _)
InsertByDateUnstable(sorted, row) ==
    IF sorted = <<>> THEN <<row>>
    ELSE LET last == sorted[Len(sorted)]
         IN  IF CompareDates(last.date, row.date) >= 0
             THEN Append(InsertByDateUnstable(SubSeq(sorted, 1, Len(sorted) - 1), row), last)
             ELSE Append(sorted, row)

\* [...data].sort((a, b) => time(a) - time(b)): Array.prototype.sort is
\* stable; an insertion sort that moves a row only past strictly later rows.
RECURSIVE InsertByDate(_, _)
InsertByDate(sorted, row) ==
    IF sorted = <<>> THEN <<row>>
    ELSE LET last == sorted[Len(sorted)]
         IN  IF CompareDates(last.date, row.date) > 0
             THEN Append(InsertByDate(SubSeq(sorted, 1, Len(sorted) - 1), row), last)
             ELSE Append(sorted, row)

\* the rows are left in upload order
SortByDateNone(d) == d

RECURSIVE SortByDate(_)
SortByDate(d) ==
    IF d = <<>> THEN <<>>
    ELSE InsertByDate(SortByDate(SubSeq(d, 1, Len(d) - 1)), d[Len(d)])

\* lines 36-39; i is the 1-based position of the row in sortedData
RollingMean3LookAhead(sortedData, i) ==
    IF i - 1 >= 1 /\ i + 1 <= Len(sortedData)
    THEN FDiv(FAdd(FAdd(Num(sortedData[i + 1].temperature_c),
                        Num(sortedData[i].temperature_c)),
                   Num(sortedData[i - 1].temperature_c)), Num(3))
    ELSE Num(sortedData[i].temperature_c)

RollingMean3(sortedData, i) ==
    IF i - 1 >= 2
    THEN FDiv(FAdd(FAdd(Num(sortedData[i].temperature_c),
                        Num(sortedData[i - 1].temperature_c)),
                   Num(sortedData[i - 2].temperature_c)), Num(3))
    ELSE Num(sortedData[i].temperature_c)

\* the deviation taken with the divisor of a sample, n - 1
RollingStd7Sample(sortedData, i) ==
    IF i - 1 >= 6
    THEN LET slice == [k \in 1..7 |-> Num(sortedData[i - 7 + k].temperature_c)]
             mean  == FDiv(SumSeq(slice, Num(0)), Num(7))
             sq    == [k \in 1..7 |-> LET dev == FSub(slice[k], mean) IN FMul(dev, dev)]
         IN  FSqrt(FDiv(SumSeq(sq, Num(0)), Num(6)))
    ELSE Num(0)

\* lines 41-46; Math.pow(x, 2) is the rounded product x * x
RollingStd7(sortedData, i) ==
    IF i - 1 >= 6
    THEN LET slice == [k \in 1..7 |-> Num(sortedData[i - 7 + k].temperature_c)]
             mean  == FDiv(SumSeq(slice, Num(0)), Num(7))
             sq    == [k \in 1..7 |-> LET dev == FSub(slice[k], mean) IN FMul(dev, dev)]
         IN  FSqrt(FDiv(SumSeq(sq, Num(0)), Num(7)))
    ELSE Num(0)

\* lines 26-60
FeatureRow(sortedData, i) ==
    LET row       == sortedData[i]
        date      == row.date
        dayOfYear == IF IsDate(date) THEN Div(GetDayOfYear(date), 366) ELSE NaN
        month     == IF IsDate(date) THEN Div(GetMonth(date), 12) ELSE NaN
        weekday   == IF IsDate(date) THEN Div(GetDay(date), 7) ELSE NaN
        isWeekend == IF NumEq(weekday, Num(0)) \/ NumEq(weekday, Num(6)) THEN 1 ELSE 0
    IN  << Num(row.temperature_c), Num(row.humidity), Num(row.pressure_hpa),
           Num(row.wind_speed_mps), Num(row.precipitation_mm),
           dayOfYear, month, weekday, Num(isWeekend),
           RollingMean3(sortedData, i), RollingStd7(sortedData, i) >>

\* line 27, parseISO(row.date): whether the call throws.  For a date that is
\* no string it throws a TypeError (date-fns 3 and later) or returns an
\* invalid date (date-fns 2); the version in use is not part of the source.
ParseISOThrows(d) ==
    IF \E i \in 1..Len(d) : ~IsDate(d[i].date) THEN BOOLEAN ELSE {FALSE}

PreprocessData(enc, d) ==
    LET sortedData == SortByDate(d)
    IN  [ features   |-> [i \in 1..Len(sortedData) |-> FeatureRow(sortedData, i)],
          labels     |-> [i \in 1..Len(sortedData) |->
                             EncodeLabel(enc, sortedData[i].weather_label)],
          tempLabels |-> [i \in 1..Len(sortedData) |-> sortedData[i].temperature_c] ]

----------------------------------------------------------------------------
(* WeatherModelService.trainLSTM, lines 72-79: the windows *)

windowSize == 3

\* for (let i = windowSize; i < features.length; i++) { X.push(...); y.push(...) }
\* i is the loop's 0-based index; sequences are 1-based
RECURSIVE WindowLoop(_, _, _, _, _)
WindowLoop(features, targets, i, X, y) ==
    IF i < Len(features)
    THEN WindowLoop(features, targets, i + 1,
                    Append(X, SubSeq(features, i - windowSize + 1, i)),
                    Append(y, targets[i + 1]))
    ELSE [X |-> X, y |-> y]

\* the target taken from the window's own last row
RECURSIVE WindowLoopShifted(_, _, _, _, _)
WindowLoopShifted(features, targets, i, X, y) ==
    IF i < Len(features)
    THEN WindowLoopShifted(features, targets, i + 1,
                    Append(X, SubSeq(features, i - windowSize + 1, i)),
                    Append(y, targets[i]))
    ELSE [X |-> X, y |-> y]

MakeWindowsShifted(features, targets) ==
    WindowLoopShifted(features, targets, windowSize, <<>>, <<>>)

MakeWindows(features, targets) ==
    WindowLoop(features, targets, windowSize, <<>>, <<>>)


----------------------------------------------------------------------------
(* Bounds *)

\* epochs: 50 in the source; the model's fits run Epochs of them
Epochs == 2
MaxRows == 8
MaxUnsortedRows == 6
MaxAppRows == 5
MaxServiceRows == 4
MaxRuns == 2

----------------------------------------------------------------------------
(* WeatherModelService.trainLSTM / trainClassifier *)

TensorShapeError == "tensor requires shape to be provided when values are a flat array"
FitError == "fit rejected"

\* lines 72-95: tf.tensor3d(X) throws on an empty X; otherwise the model is
\* built and compiled and model.fit is entered
TrainLSTMStart(features, targets) ==
    LET w == MakeWindows(features, targets)
    IN  IF Len(w.X) = 0
        THEN [threw |-> TRUE, error |-> TensorShapeError]
        ELSE [threw |-> FALSE, error |-> ""]

\* lines 110-122: tf.tensor2d(features) throws on an empty features
TrainClassifierStart(nFeatures) ==
    IF nFeatures = 0
    THEN [threw |-> TRUE, error |-> TensorShapeError]
    ELSE [threw |-> FALSE, error |-> ""]

\* const model = tf.sequential(); ...: a model no epoch has trained.  run is
\* the runTraining invocation whose call made it, 0 for another caller
NewModel(kind, run) ==
    [kind |-> kind, run |-> run, epochsDone |-> 0, nonFinite |-> FALSE]

\* private lstmModel: tf.LayersModel | null = null
NoModel == [kind |-> "null", run |-> 0, epochsDone |-> 0, nonFinite |-> FALSE]

Method(kind) == IF kind = "lstm" THEN "trainLSTM" ELSE "trainClassifier"

Settled(method, outcome, error) ==
    [method |-> method, outcome |-> outcome, error |-> error]

\* await model.fit(...) resumes too early
FitCompleteEarly(f) == f.epochsDone >= 1

\* await model.fit(xs, ys, {epochs, ...}) resumes once every epoch ran
FitComplete(f) == f.epochsDone = Epochs

----------------------------------------------------------------------------
(* WeatherModelService.predict *)

ModelsNotTrained == "Models not trained"
TypeErrorNull == "TypeError: Cannot read properties of null"

ModelsMissingBoth(lstm, clf) == lstm = NoModel /\ clf = NoModel

\* if (!this.lstmModel || !this.classifierModel)
ModelsMissing(lstm, clf) == lstm = NoModel \/ clf = NoModel

\* classPred.argMax(-1): the index of the largest of the classifier's outputs
ArgMax(v) ==
    CHOOSE i \in DOMAIN v : \A j \in DOMAIN v : v[j] < v[i] \/ (v[j] = v[i] /\ i <= j)

NotReturned(error) ==
    [ outcome |-> "threw", error |-> error, lstmInput |-> <<>>, classInput |-> <<>>,
      classPred |-> <<>>, temperature |-> "", label |-> "" ]

\* the regressor is given the current features once, not a sequence of 3
PredictSingleStep(lstm, clf, currentFeatures, classPred) ==
    IF ModelsMissing(lstm, clf)
    THEN NotReturned(ModelsNotTrained)
    ELSE [ outcome |-> "returned", error |-> "",
           lstmInput  |-> << <<currentFeatures>> >>,
           classInput |-> <<currentFeatures>>,
           classPred  |-> classPred,
           temperature |-> "number",
           label |-> WEATHER_LABELS[ArgMax(classPred)] ]

\* lines 136-154; classPred is the output of classifierModel.predict
Predict(lstm, clf, currentFeatures, classPred) ==
    IF ModelsMissing(lstm, clf)
    THEN NotReturned(ModelsNotTrained)
    ELSE IF lstm = NoModel \/ clf = NoModel
    THEN NotReturned(TypeErrorNull)
    ELSE [ outcome |-> "returned", error |-> "",
           lstmInput  |-> << <<currentFeatures, currentFeatures, currentFeatures>> >>,
           classInput |-> <<currentFeatures>>,
           classPred  |-> classPred,
           temperature |-> "number",
           label |-> WEATHER_LABELS[ArgMax(classPred)] ]

NoPredict == [ outcome |-> "none", error |-> "", lstmInput |-> <<>>, classInput |-> <<>>,
               classPred |-> <<>>, temperature |-> "", label |-> "" ]

----------------------------------------------------------------------------
(* Observations *)

Row(date, temp, label) ==
    [ date |-> date, temperature_c |-> temp, humidity |-> 60, pressure_hpa |-> 1010,
      wind_speed_mps |-> 5, precipitation_mm |-> 0, weather_label |-> label ]

\* two rows of one date (a Saturday) and a row of an earlier date in another
\* month (a Thursday); one label outside the fixed set
SampleRowSeq ==
    << Row(<<2024, 3, 2>>, 1, "rain"),
       Row(<<2024, 3, 2>>, 11, "fog"),
       Row(<<2024, 2, 29>>, 11, "snow") >>

SampleRows == {SampleRowSeq[i] : i \in DOMAIN SampleRowSeq}

MkRows(n) == [i \in 1..n |-> SampleRowSeq[((i - 1) % Len(SampleRowSeq)) + 1]]

\* the inputs of preprocessData: every sequence of up to MaxUnsortedRows
\* rows, and the longer ones that are already in date order
EarliestRows == {r \in SampleRows : \A r2 \in SampleRows : GetTime(r.date) <= GetTime(r2.date)}
LaterRows == SampleRows \ EarliestRows
SortedInputsOf(n, a) ==
    { [k \in 1..n |-> IF k <= a THEN e[k] ELSE l[k]] :
        e \in [1..a -> EarliestRows], l \in [(a + 1)..n -> LaterRows] }
SortedInputs ==
    UNION { UNION {SortedInputsOf(n, a) : a \in 0..n} :
            n \in (MaxUnsortedRows + 1)..MaxRows }
Inputs == UNION {[1..n -> SampleRows] : n \in 0..MaxUnsortedRows} \cup SortedInputs
\* a file without a date column: every row's date is undefined
WithoutDates(d) == [i \in 1..Len(d) |-> [d[i] EXCEPT !.date = NoDate]]
AppDatasets ==
    {MkRows(n) : n \in {0} \cup 4..MaxAppRows} \cup {WithoutDates(MkRows(MaxAppRows))}
ServiceDatasets == {MkRows(n) : n \in 0..MaxServiceRows}
InputTemps == {20, 25}

\* outputs of the classifier's softmax layer, one value per category (in
\* tenths), each category the largest in one of them
ClassOutputs ==
    { [i \in DOMAIN WEATHER_LABELS |-> IF i = k THEN 6 ELSE 1] : k \in DOMAIN WEATHER_LABELS }
Tabs == {"data", "train", "eval", "predict"}

----------------------------------------------------------------------------
(* Initial states *)

NoPrediction == [temperature |-> "", label |-> ""]
NoEngineered == [features |-> <<>>, labels |-> <<>>, tempLabels |-> <<>>]
NoWindows == [X |-> <<>>, y |-> <<>>]

InitBase ==
    /\ labelEncoder = Constructor
    /\ lstmModel = NoModel
    /\ classifierModel = NoModel
    /\ fits = {}
    /\ lastTrain = Settled("", "none", "")
    /\ activeTab = "data"
    /\ data = <<>>
    /\ isTraining = FALSE
    /\ trainingLogs = <<>>
    /\ metrics = "null"
    /\ prediction = NoPrediction
    /\ runs = <<>>
    /\ nRuns = 0
    /\ lastRun = "none"
    /\ fetchPending = TRUE
    /\ lastPredict = NoPredict
    /\ engineered = NoEngineered
    /\ windowed = NoWindows

Init == InitBase /\ stage = "off" /\ obs = <<>>

InitEngineer == InitBase /\ stage = "input" /\ obs \in Inputs

----------------------------------------------------------------------------
(* The fit of a train call: epochs, rejection, completion *)

\* runTraining's onEpochEnd callbacks (App.tsx lines 96-98 and 101-109);
\* another caller passes none
OnEpochEnd(f, epoch) ==
    IF f.run = 0 THEN trainingLogs
    ELSE IF f.kind = "lstm"
    THEN Append(trainingLogs, [epoch |-> epoch, accuracy |-> FALSE])
    ELSE LET n == Len(trainingLogs)
         IN  IF n > 0 /\ trainingLogs[n].epoch = epoch
             THEN [trainingLogs EXCEPT ![n].accuracy = TRUE]
             ELSE Append(trainingLogs, [epoch |-> epoch, accuracy |-> TRUE])

\* one epoch of model.fit ends; its loss may be NaN or Inf, and stays so
FitEpoch(f) ==
    /\ f \in fits
    /\ f.epochsDone < Epochs
    /\ \E bad \in BOOLEAN :
         fits' = (fits \ {f}) \cup {[f EXCEPT !.epochsDone = @ + 1,
                                              !.nonFinite = @ \/ bad]}
    /\ trainingLogs' = OnEpochEnd(f, f.epochsDone)
    /\ UNCHANGED <<labelEncoder, lstmModel, classifierModel, lastTrain, activeTab, data,
                   isTraining, metrics, prediction, runs, nRuns, lastRun, fetchPending,
                   lastPredict, engineerVars>>

\* model.fit rejects; runTraining's catch (App.tsx lines 120-123)
FitReject(f) ==
    /\ f \in fits
    /\ fits' = fits \ {f}
    /\ lastTrain' = Settled(Method(f.kind), "threw", FitError)
    /\ IF f.run = 0
       THEN UNCHANGED <<isTraining, runs, lastRun>>
       ELSE /\ isTraining' = FALSE
            /\ lastRun' = "returned"
            /\ runs' = [r \in DOMAIN runs \ {f.run} |-> runs[r]]
    /\ UNCHANGED <<labelEncoder, lstmModel, classifierModel, activeTab, data,
                   trainingLogs, metrics, prediction, nRuns, fetchPending, lastPredict,
                   engineerVars>>

\* trainLSTM never stores its model
AssignModelClassifierOnly(kind, slot, f) ==
    IF f.kind = kind /\ kind = "classifier" THEN f ELSE slot

\* this.lstmModel = model (line 105), this.classifierModel = model (line 132):
\* the slot of the fit's kind takes its model, the other slot stays
AssignModel(kind, slot, f) == IF f.kind = kind THEN f ELSE slot

\* model.fit resolves: the slot is assigned (lines 105 / 132) and the caller
\* resumes; runTraining goes on to trainClassifier (App.tsx lines 100-109) or
\* to its end (lines 111-119)
FitResolve(f) ==
    /\ f \in fits
    /\ FitComplete(f)
    /\ LET r     == f.run
           start == TrainClassifierStart(runs[r].nRows)
       IN  /\ lstmModel' = AssignModel("lstm", lstmModel, f)
           /\ classifierModel' = AssignModel("classifier", classifierModel, f)
           /\ IF r = 0
              THEN /\ fits' = fits \ {f}
                   /\ lastTrain' = Settled(Method(f.kind), "returned", "")
                   /\ UNCHANGED <<isTraining, metrics, activeTab, runs, lastRun>>
              ELSE IF f.kind = "lstm" /\ start.threw
              THEN /\ fits' = fits \ {f}
                   /\ lastTrain' = Settled("trainClassifier", "threw", start.error)
                   /\ isTraining' = FALSE
                   /\ lastRun' = "returned"
                   /\ runs' = [q \in DOMAIN runs \ {r} |-> runs[q]]
                   /\ UNCHANGED <<metrics, activeTab>>
              ELSE IF f.kind = "lstm"
              THEN /\ fits' = (fits \ {f}) \cup {NewModel("classifier", r)}
                   /\ lastTrain' = Settled("trainLSTM", "returned", "")
                   /\ runs' = [runs EXCEPT ![r].pc = "clf"]
                   /\ UNCHANGED <<isTraining, metrics, activeTab, lastRun>>
              ELSE /\ fits' = fits \ {f}
                   /\ lastTrain' = Settled("trainClassifier", "returned", "")
                   /\ metrics' = "set"
                   /\ isTraining' = FALSE
                   /\ activeTab' = "eval"
                   /\ lastRun' = "returned"
                   /\ runs' = [q \in DOMAIN runs \ {r} |-> runs[q]]
    /\ UNCHANGED <<labelEncoder, data, trainingLogs, prediction, nRuns, fetchPending,
                   lastPredict, engineerVars>>

----------------------------------------------------------------------------
(* App.tsx *)

\* lines 59-70: the initial fetch completes
FetchDone(d) ==
    /\ fetchPending
    /\ fetchPending' = FALSE
    /\ data' = d
    /\ UNCHANGED <<serviceVars, activeTab, isTraining, trainingLogs, metrics,
                   prediction, runs, nRuns, lastRun, lastPredict, engineerVars>>

\* lines 72-85
HandleFileUpload(d) ==
    /\ data' = d
    /\ activeTab' = "data"
    /\ UNCHANGED <<serviceVars, isTraining, trainingLogs, metrics, prediction, runs,
                   nRuns, lastRun, fetchPending, lastPredict, engineerVars>>

\* lines 164-167 and 257
SetActiveTab(t) ==
    /\ activeTab' = t
    /\ UNCHANGED <<serviceVars, data, isTraining, trainingLogs, metrics, prediction,
                   runs, nRuns, lastRun, fetchPending, lastPredict, engineerVars>>

StartButtonAlwaysEnabled == activeTab = "train"

\* lines 268 and 281-284: the button is rendered on the training tab and
\* disabled while isTraining
StartButtonEnabled == activeTab = "train" /\ ~isTraining

\* a dataset of three rows, which no window fits, is the last one refused
TooFewRowsForWindow(d) == Len(d) < 4

\* line 88: if (data.length < 5) return
TooFewRows(d) == Len(d) < 5

\* lines 87-98: up to the first await.  preprocessData is called outside the
\* try: when it throws, the promise of runTraining is rejected and nothing
\* after line 92 runs
RunTraining ==
    /\ StartButtonEnabled
    /\ IF TooFewRows(data)
       THEN /\ lastRun' = "returned"
            /\ UNCHANGED <<fits, lastTrain, isTraining, trainingLogs, runs, nRuns>>
       ELSE \E thrown \in ParseISOThrows(data) :
            LET p     == PreprocessData(labelEncoder, data)
                start == TrainLSTMStart(p.features, p.tempLabels)
                r     == nRuns + 1
            IN  /\ trainingLogs' = <<>>
                /\ IF thrown
                   THEN /\ isTraining' = TRUE
                        /\ lastRun' = "rejected"
                        /\ UNCHANGED <<fits, runs, nRuns, lastTrain>>
                   ELSE /\ nRuns < MaxRuns
                        /\ nRuns' = r
                        /\ IF start.threw
                           THEN /\ lastTrain' = Settled("trainLSTM", "threw", start.error)
                                /\ isTraining' = FALSE
                                /\ lastRun' = "returned"
                                /\ UNCHANGED <<fits, runs>>
                           ELSE /\ fits' = fits \cup {NewModel("lstm", r)}
                                /\ runs' = (r :> [pc |-> "lstm", nRows |-> Len(p.features)])
                                           @@ runs
                                /\ isTraining' = TRUE
                                /\ lastRun' = "pending"
                                /\ UNCHANGED lastTrain
    /\ UNCHANGED <<labelEncoder, lstmModel, classifierModel, activeTab, data, metrics,
                   prediction, fetchPending, lastPredict, engineerVars>>

\* lines 128-136, with inputData.temp = temp and the other inputs as loaded;
\* <<1, 2>> is the literal 0.5
CurrentFeatures(temp) ==
    << Num(temp), Num(60), Num(1010), Num(5), Num(0),
       <<1, 2>>, <<1, 2>>, <<1, 2>>, Num(0), Num(temp), Num(0) >>

\* lines 126-142; the button is on the prediction tab
HandlePredict(temp, classPred) ==
    /\ activeTab = "predict"
    /\ LET res == Predict(lstmModel, classifierModel, CurrentFeatures(temp), classPred)
       IN  /\ lastPredict' = res
           /\ prediction' = IF res.outcome = "returned"
                            THEN [temperature |-> res.temperature, label |-> res.label]
                            ELSE prediction
    /\ UNCHANGED <<serviceVars, activeTab, data, isTraining, trainingLogs, metrics,
                   runs, nRuns, lastRun, fetchPending, engineerVars>>

Next ==
    \/ \E d \in AppDatasets : FetchDone(d)
    \/ \E d \in AppDatasets : HandleFileUpload(d)
    \/ \E t \in Tabs : SetActiveTab(t)
    \/ RunTraining
    \/ \E temp \in InputTemps, out \in ClassOutputs : HandlePredict(temp, out)
    \/ \E f \in fits : FitEpoch(f)
    \/ \E f \in fits : FitReject(f)
    \/ \E f \in fits : FitResolve(f)

Spec == Init /\ [][Next]_vars

\* model.fit goes on from epoch to epoch and settles: a pending fit is not
\* left waiting forever
Fairness ==
    /\ WF_vars(\E f \in fits : FitEpoch(f))
    /\ WF_vars(\E f \in fits : FitResolve(f))

SpecFair == Spec /\ Fairness

----------------------------------------------------------------------------
(* The service driven directly: preprocessData, trainLSTM, trainClassifier
   and predict are public methods of the exported class.  The caller keeps
   to one pending train call per method. *)

ApiTrainLSTM(d) ==
    /\ \A f \in fits : ~(f.kind = "lstm" /\ f.run = 0)
    /\ LET p     == PreprocessData(labelEncoder, d)
           start == TrainLSTMStart(p.features, p.tempLabels)
       IN  IF start.threw
           THEN lastTrain' = Settled("trainLSTM", "threw", start.error) /\ UNCHANGED fits
           ELSE fits' = fits \cup {NewModel("lstm", 0)} /\ UNCHANGED lastTrain
    /\ UNCHANGED <<labelEncoder, lstmModel, classifierModel, appVars, lastPredict,
                   engineerVars>>

ApiTrainClassifier(d) ==
    /\ \A f \in fits : ~(f.kind = "classifier" /\ f.run = 0)
    /\ LET p     == PreprocessData(labelEncoder, d)
           start == TrainClassifierStart(Len(p.features))
       IN  IF start.threw
           THEN lastTrain' = Settled("trainClassifier", "threw", start.error)
                /\ UNCHANGED fits
           ELSE fits' = fits \cup {NewModel("classifier", 0)} /\ UNCHANGED lastTrain
    /\ UNCHANGED <<labelEncoder, lstmModel, classifierModel, appVars, lastPredict,
                   engineerVars>>

ApiPredict(temp, classPred) ==
    /\ lastPredict' = Predict(lstmModel, classifierModel, CurrentFeatures(temp), classPred)
    /\ UNCHANGED <<serviceVars, appVars, engineerVars>>

NextService ==
    \/ \E d \in ServiceDatasets : ApiTrainLSTM(d)
    \/ \E d \in ServiceDatasets : ApiTrainClassifier(d)
    \/ \E temp \in InputTemps, out \in ClassOutputs : ApiPredict(temp, out)
    \/ \E f \in fits : FitEpoch(f)
    \/ \E f \in fits : FitReject(f)
    \/ \E f \in fits : FitResolve(f)

SpecService == Init /\ [][NextService]_vars

----------------------------------------------------------------------------
(* preprocessData and the windowing loop applied to an input *)

CallPreprocessData ==
    /\ stage = "input"
    /\ stage' = "engineered"
    /\ engineered' = PreprocessData(labelEncoder, obs)
    /\ UNCHANGED <<serviceVars, appVars, lastPredict, obs, windowed>>

CallMakeWindows ==
    /\ stage = "engineered"
    /\ stage' = "windowed"
    /\ windowed' = MakeWindows(engineered.features, engineered.tempLabels)
    /\ UNCHANGED <<serviceVars, appVars, lastPredict, obs, engineered>>

NextEngineer == CallPreprocessData \/ CallMakeWindows

SpecEngineer == InitEngineer /\ [][NextEngineer]_vars

----------------------------------------------------------------------------
(* Properties *)

\* C1: whenever predict runs with the regressor slot or the classifier slot
\* absent, it fails with the "Models not trained" error and with no other,
\* and the step leaves both slots as they were.
C1_PredictNotReady ==
    [][ (lastPredict' # lastPredict /\ (lstmModel = NoModel \/ classifierModel = NoModel))
        => /\ lastPredict'.outcome = "threw"
           /\ lastPredict'.error = ModelsNotTrained
           /\ lstmModel' = lstmModel
           /\ classifierModel' = classifierModel ]_vars

\* predict has failed as not trained while the regressor was already in its
\* slot and the classifier still missing
C1_Witness ==
    /\ lastPredict.outcome = "threw"
    /\ lastPredict.error = ModelsNotTrained
    /\ lstmModel # NoModel
    /\ classifierModel = NoModel

InsufficientData == "InsufficientData"

\* C2: a trainLSTM call on N <= windowSize observations fails with the
\* InsufficientData condition and leaves the regressor slot as it was.
C2_InsufficientData ==
    [][ (\E d \in ServiceDatasets : Len(d) <= windowSize /\ ApiTrainLSTM(d))
        => /\ lastTrain'.outcome = "threw"
           /\ lastTrain'.error = InsufficientData
           /\ lstmModel' = lstmModel ]_vars

----------------------------------------------------------------------------
(* The observations in date order, stated without the sort *)

\* the calendar date of row i lies before that of row j, or the dates are
\* equal and row i comes first in the input
CalendarBefore(a, b) ==
    \/ a[1] < b[1]
    \/ a[1] = b[1] /\ a[2] < b[2]
    \/ a[1] = b[1] /\ a[2] = b[2] /\ a[3] < b[3]

ComesBefore(d, i, j) ==
    \/ CalendarBefore(d[i].date, d[j].date)
    \/ d[i].date = d[j].date /\ i < j

Rank(d, j) == 1 + Cardinality({i \in 1..Len(d) : ComesBefore(d, i, j)})

DateOrdered(d) ==
    [k \in 1..Len(d) |-> d[CHOOSE j \in 1..Len(d) : Rank(d, j) = k]]

IsDateSorted(d) ==
    \A i \in 1..Len(d) : \A j \in 1..Len(d) :
        i < j => ~CalendarBefore(d[j].date, d[i].date)

\* C3: for N >= windowSize + 1 observations, preprocessData followed by the
\* windowing loop yields exactly N - windowSize windows; window k is the
\* feature rows k .. k + windowSize - 1 and target k is the temperature of
\* the row right after them in date order.
C3_Windows ==
    (stage = "windowed" /\ Len(obs) >= windowSize + 1) =>
        LET N == Len(obs)
            s == DateOrdered(obs)
        IN  /\ Len(windowed.X) = N - windowSize
            /\ Len(windowed.y) = N - windowSize
            /\ \A k \in 1..(N - windowSize) :
                 /\ Len(windowed.X[k]) = windowSize
                 /\ \A q \in 1..windowSize :
                       windowed.X[k][q] = engineered.features[k + q - 1]
                 /\ windowed.y[k] = s[windowSize + k].temperature_c

\* N = windowSize + 1 rows of unequal temperatures have given one window
C3_Witness ==
    /\ stage = "windowed"
    /\ Len(obs) = windowSize + 1
    /\ Len(windowed.X) = 1
    /\ obs[windowSize].temperature_c # windowed.y[1]

SlotComplete(m, kind) == m = NoModel \/ (m.kind = kind /\ m.epochsDone = Epochs)

\* C4: at every step each slot holds null or a model that all epochs have
\* trained, and a slot changes only in the step in which a pending fit of its
\* kind, with every epoch run, ends and hands over its model.
C4_AtomicSwap ==
    [][ /\ SlotComplete(lstmModel', "lstm")
        /\ SlotComplete(classifierModel', "classifier")
        /\ lstmModel' # lstmModel =>
             \E f \in fits : /\ f.kind = "lstm" /\ f.epochsDone = Epochs
                             /\ lstmModel' = f /\ f \notin fits'
        /\ classifierModel' # classifierModel =>
             \E f \in fits : /\ f.kind = "classifier" /\ f.epochsDone = Epochs
                             /\ classifierModel' = f /\ f \notin fits' ]_vars

\* a fit is between two epochs while both slots hold the previous models
C4_Witness ==
    /\ lstmModel # NoModel
    /\ classifierModel # NoModel
    /\ \E f \in fits : f.kind = "lstm" /\ f.epochsDone > 0 /\ f.epochsDone < Epochs

\* C5: at most one runTraining invocation is in progress, and at most one
\* fit per model slot is pending.
C5_OneRun ==
    /\ Cardinality(DOMAIN runs) <= 1
    /\ Cardinality({f \in fits : f.kind = "lstm"}) <= 1
    /\ Cardinality({f \in fits : f.kind = "classifier"}) <= 1

\* a second run is in progress, started after the first one ended, and the
\* training tab is shown
C5_Witness ==
    /\ nRuns = 2
    /\ DOMAIN runs = {2}
    /\ activeTab = "train"
    /\ isTraining

\* C6: no predict call reads the model slots and returns a prediction while
\* a train call is pending.
C6_PredictExcluded ==
    [][ (lastPredict' # lastPredict /\ lastPredict'.outcome = "returned")
        => fits = {} ]_vars

\* C7: a model whose fit reported a non-finite loss never reaches a slot.
C7_NumericInstability == ~lstmModel.nonFinite /\ ~classifierModel.nonFinite

\* the temperatures a row may be given
Temps == {r.temperature_c : r \in SampleRows}

\* the input that differs from d only in the temperature of row k
TempChanged(d, k, t) == [d EXCEPT ![k].temperature_c = t]

\* C8: for a date-sorted input, changing the temperature of row k alone
\* leaves the rolling mean and the rolling deviation of every earlier row as
\* they were.
C8_NoLookAhead ==
    (stage = "engineered" /\ IsDateSorted(obs)) =>
        \A k \in 1..Len(obs) : \A t \in Temps :
            LET f2 == PreprocessData(labelEncoder, TempChanged(obs, k, t)).features
            IN  \A j \in 1..(k - 1) :
                    LET row == f2[j]
                    IN  /\ row[10] = engineered.features[j][10]
                        /\ row[11] = engineered.features[j][11]

\* a date-sorted input of 8 rows whose row 7 has a deviation over 7 unequal
\* temperatures, and whose row 8 may change
C8_Witness ==
    /\ stage = "engineered"
    /\ IsDateSorted(obs)
    /\ Len(obs) = 8
    /\ engineered.features[7][11][1] > 0
    /\ engineered.features[7][10] # engineered.features[8][10]

\* C9: for each of the 5 labels, the index the encoder gives decodes through
\* WEATHER_LABELS to the label itself; and no step changes the encoder.
C9_LabelRoundTrip ==
    /\ [](\A l \in LabelSet :
            /\ l \in DOMAIN labelEncoder
            /\ labelEncoder[l] \in DOMAIN WEATHER_LABELS
            /\ WEATHER_LABELS[labelEncoder[l]] = l)
    /\ [][labelEncoder' = labelEncoder]_vars

\* predict has decoded index 4 to a label that the encoder maps to 4
C9_Witness ==
    /\ lastPredict.outcome = "returned"
    /\ lastPredict.label = WEATHER_LABELS[4]
    /\ labelEncoder[lastPredict.label] = 4
    /\ nRuns > 0

\* C10: features, labels and tempLabels have the input's length, and entry k
\* of each belongs to the k-th observation in calendar-date order, rows of
\* one date keeping their input order.
C10_Aligned ==
    stage = "engineered" =>
        LET s == DateOrdered(obs)
        IN  /\ Len(engineered.features) = Len(obs)
            /\ Len(engineered.labels) = Len(obs)
            /\ Len(engineered.tempLabels) = Len(obs)
            /\ \A k \in 1..Len(obs) :
                 /\ engineered.tempLabels[k] = s[k].temperature_c
                 /\ engineered.features[k][1] = Num(s[k].temperature_c)
                 /\ engineered.labels[k] = EncodeLabel(labelEncoder, s[k].weather_label)

\* an input with two unlike rows of one date and a row out of date order
C10_Witness ==
    /\ stage = "engineered"
    /\ ~IsDateSorted(obs)
    /\ \E i \in 1..Len(obs) : \E j \in 1..Len(obs) :
          i < j /\ obs[i].date = obs[j].date /\ obs[i] # obs[j]

\* C11: the weekend flag of every feature vector is 1 exactly when the
\* weekday index of the row's date is 0 (Sunday) or 6 (Saturday).
C11_WeekendFlag ==
    stage = "engineered" =>
        LET s == DateOrdered(obs)
        IN  \A k \in 1..Len(obs) :
              engineered.features[k][9] =
                  Num(IF GetDay(s[k].date) \in {0, 6} THEN 1 ELSE 0)

\* the mean of three temperatures and the population standard deviation
\* (divisor 7) of seven, as floating-point arithmetic evaluates them
MeanOf3(a, b, c) == FDiv(FAdd(FAdd(Num(a), Num(b)), Num(c)), Num(3))

PopulationStd7(ts) ==
    LET xs   == [k \in 1..7 |-> Num(ts[k])]
        mean == FDiv(SumSeq(xs, Num(0)), Num(7))
        devs == [k \in 1..7 |-> FSub(xs[k], mean)]
    IN  FSqrt(FDiv(SumSeq([k \in 1..7 |-> FMul(devs[k], devs[k])], Num(0)), Num(7)))

\* rows i - 2..i give the mean and rows i - 6..i the deviation (i counted
\* from 0 in the claim, from 1 here)
RollingAsClaimed(d, f) ==
    \A i \in 1..Len(d) :
        /\ f[i][10] = IF i - 1 >= 2
                      THEN MeanOf3(d[i].temperature_c, d[i - 1].temperature_c,
                                   d[i - 2].temperature_c)
                      ELSE Num(d[i].temperature_c)
        /\ f[i][11] = IF i - 1 >= 6
                      THEN PopulationStd7([k \in 1..7 |-> d[i - 7 + k].temperature_c])
                      ELSE Num(0)

IsConstant(d, c) == \A i \in 1..Len(d) : d[i].temperature_c = c

ConstantAsClaimed(d, f, c) ==
    \A i \in 1..Len(d) : f[i][10] = Num(c) /\ f[i][11] = Num(0)

\* c, 2c, .., 7c are numbers: the sums of a constant window are exact
ExactMultiples(c) == \A k \in 1..7 : Fl(<<k * c, 1>>) = <<k * c, 1>>

C13_ClassLabels ==
    stage = "engineered" =>
        LET s == DateOrdered(obs)
        IN  \A k \in 1..Len(obs) :
              /\ engineered.labels[k] \in 0..4
              /\ s[k].weather_label \in LabelSet =>
                    WEATHER_LABELS[engineered.labels[k]] = s[k].weather_label
              /\ s[k].weather_label \notin LabelSet => engineered.labels[k] = 0

\* an input with a label outside the fixed set and one inside it
C13_Witness ==
    /\ stage = "engineered"
    /\ \E k \in 1..Len(obs) : /\ DateOrdered(obs)[k].weather_label \notin LabelSet
                              /\ engineered.labels[k] = 0
    /\ \E k \in 1..Len(obs) : /\ DateOrdered(obs)[k].weather_label \in LabelSet
                              /\ engineered.labels[k] > 0

IndexOf(label) == CHOOSE i \in DOMAIN WEATHER_LABELS : WEATHER_LABELS[i] = label

\* C14: a predict call made with both models present returns; the regressor
\* was given one window of 3 elements, each the current features, and the
\* classifier the current features alone; the label is one of the 5 and no
\* category has a larger output than it; both slots stay as they were.
C14_PredictWindow ==
    [][ (lastPredict' # lastPredict /\ lstmModel # NoModel /\ classifierModel # NoModel)
        => /\ lastPredict'.outcome = "returned"
           /\ \E temp \in InputTemps :
                 LET cf == CurrentFeatures(temp)
                 IN  /\ lastPredict'.lstmInput = << <<cf, cf, cf>> >>
                     /\ lastPredict'.classInput = <<cf>>
           /\ lastPredict'.label \in LabelSet
           /\ \A j \in DOMAIN WEATHER_LABELS :
                 lastPredict'.classPred[j] <= lastPredict'.classPred[IndexOf(lastPredict'.label)]
           /\ lstmModel' = lstmModel
           /\ classifierModel' = classifierModel ]_vars

\* predict has returned the category of the largest output, with both
\* models in their slots
C14_Witness ==
    /\ lastPredict.outcome = "returned"
    /\ lastPredict.label = "storm"
    /\ lastPredict.classPred[3] = 6
    /\ Len(lastPredict.lstmInput[1]) = 3
    /\ lstmModel # NoModel
    /\ classifierModel # NoModel

\* C15: whenever both slots are filled, the regressor and the classifier are
\* models of one training run.
C15_SameRun ==
    (lstmModel # NoModel /\ classifierModel # NoModel) =>
        lstmModel.run = classifierModel.run

\* C15 as amended: when both slots are filled the regressor is of the
\* classifier's run or of a later one, and the step in which a run ends as a
\* success leaves both slots with the models of that run.
C15_RunPairing ==
    [][ /\ (lstmModel' # NoModel /\ classifierModel' # NoModel) =>
              lstmModel'.run >= classifierModel'.run
        /\ (isTraining /\ ~isTraining' /\ lastTrain'.outcome = "returned") =>
              \E r \in DOMAIN runs : lstmModel'.run = r /\ classifierModel'.run = r ]_vars

\* a second run has ended as a success and both slots hold its models
C15_Witness ==
    /\ ~isTraining
    /\ fits = {}
    /\ lastTrain = Settled("trainClassifier", "returned", "")
    /\ lstmModel.run = 2
    /\ classifierModel.run = 2

\* C16: whenever isTraining is set, it is later reset.
C16_TrainingEnds == isTraining ~> ~isTraining

\* C17: a runTraining call with fewer than 5 loaded observations (a dataset
\* of 4 rows included) returns without a failure and leaves isTraining, the
\* training logs, the metrics, the active tab and both model slots as they
\* were; no train call is made or settled by it.
C17_TooFewRowsNoOp ==
    [][ (Len(data) < 5 /\ RunTraining) =>
        /\ UNCHANGED <<isTraining, trainingLogs, metrics, activeTab, lstmModel,
                       classifierModel, fits, lastTrain>>
        /\ lastRun' = "returned" ]_vars

\* runTraining has returned on 4 rows and no run has ever reached trainLSTM
C17_Witness ==
    /\ lastRun = "returned"
    /\ nRuns = 0
    /\ Len(data) = 4
    /\ activeTab = "train"

====
